---- MODULE Spec2Model ----
(***************************************************************************)
(* A model of the Quandoo restaurant scraper.                              *)
(*                                                                         *)
(*  - the task-based variant (restaurant_scraping_pydantic.py):            *)
(*    obtain_scraped_result_for_city with its result limit, its detail and *)
(*    menu fetches and the pydantic validation of every record;            *)
(*  - the tabular variant (quandoo_webscraper_app.py): obtain_scraped_data.*)
(*                                                                         *)
(* Texts are sequences of one-character strings, so that str.strip,        *)
(* str.replace, str.endswith, float() and int() are computed the way       *)
(* Python computes them.  A float is kept as an exact decimal, scaled by   *)
(* Scale (the texts are too short for two different decimals to round to   *)
(* the same double).                                                       *)
(***************************************************************************)
EXTENDS Integers, Sequences, FiniteSets, TLC

VARIABLES
    variant,                    \* "task" | "tabular" | "none" (NormSpec)
    site,                       \* site[p] = number of cards on listing page p
    limit,                      \* self.result_limit (task variant)
    pc,                         \* position of the run
    title,                      \* first_page_soup.title.text as read
    determined_last_page,       \* determined_last_page
    page,                       \* loop variable `page`
    card,                       \* index of the next card of the current page
    scraped_restaurants_count,  \* self.scraped_restaurants_count
    reached_result_limit,       \* self.reached_result_limit
    restaurant_url,             \* self.restaurant_url
    restaurant_list,            \* restaurant_list of the running page
    task_list,                  \* results of the finished per-page tasks
    final_result,               \* final_result_list / final_result_dataframe
    outfile,                    \* contents of the output file, once written
    writes,                     \* number of times the output file was written
    retval,                     \* what obtain_scraped_data returned
    fetchLog,                   \* every request issued so far, in order
    odd,                        \* cards and responses so far that were odd
    city_name,                  \* self.city_name
    pagination_box,             \* the pagination box find_last_page was given
    nfield,                     \* NormSpec: the field under normalization
    nraw,                       \* NormSpec: the raw text
    nout                        \* NormSpec: the outcome

vars == <<variant, site, limit, pc, title, determined_last_page, page, card,
          scraped_restaurants_count, reached_result_limit, restaurant_url,
          restaurant_list, task_list, final_result, outfile, writes, retval,
          fetchLog, odd, city_name, pagination_box, nfield, nraw, nout>>

crawlVars == <<variant, site, limit, pc, title, determined_last_page, page,
               card, scraped_restaurants_count, reached_result_limit,
               restaurant_url, restaurant_list, task_list, final_result,
               outfile, writes, retval, fetchLog, odd, city_name,
               pagination_box>>

normVars == <<nfield, nraw, nout>>

-----------------------------------------------------------------------------
(* Bounds *)

\* longest score text, in characters
MaxScoreLen == 5
\* most pieces a reviews or location text is put together from
MaxPieces == 3
\* most listing pages of a city
MaxPages == 2
\* most cards on one listing page
MaxCards == 2
\* largest result limit
MaxLimit == 4
\* most cards of one run that differ from the plain card
MaxOddCards == 1

-----------------------------------------------------------------------------
(* Python values *)

\* None where a text is expected: no text is made of this one "character"
None == <<"None">>

\* the outcome of a conversion: a number, None, a text, or an exception raised
Value(v) == [st |-> "ok", val |-> v, text |-> <<>>]
NoneValue == [st |-> "none", val |-> 0, text |-> <<>>]
TextValue(t) == [st |-> "text", val |-> 0, text |-> t]
ValueError == [st |-> "error", val |-> 0, text |-> <<>>]
Pending == [st |-> "pending", val |-> 0, text |-> <<>>]

\* 10^n
RECURSIVE Pow10(_)
Pow10(n) == IF n = 0 THEN 1 ELSE 10 * Pow10(n - 1)

\* a float f is kept as the integer f * Scale
Scale == Pow10(MaxScoreLen + 1)

Digits == {"0", "1", "2", "3", "4", "5", "6", "7", "8", "9"}

DigitVal(c) ==
    CASE c = "0" -> 0 [] c = "1" -> 1 [] c = "2" -> 2 [] c = "3" -> 3
      [] c = "4" -> 4 [] c = "5" -> 5 [] c = "6" -> 6 [] c = "7" -> 7
      [] c = "8" -> 8 [] c = "9" -> 9

IsDigits(s) == \A i \in 1..Len(s) : s[i] \in Digits

\* the value of a sequence of decimal digits
RECURSIVE DigitsVal(_)
DigitsVal(s) ==
    IF s = <<>> THEN 0
    ELSE 10 * DigitsVal(SubSeq(s, 1, Len(s) - 1)) + DigitVal(s[Len(s)])

\* str.strip(chars): drop leading and trailing characters that are in chars
RECURSIVE LStrip(_, _)
LStrip(s, chars) ==
    IF s # <<>> /\ Head(s) \in chars THEN LStrip(Tail(s), chars) ELSE s

RECURSIVE RStrip(_, _)
RStrip(s, chars) ==
    IF s # <<>> /\ s[Len(s)] \in chars
    THEN RStrip(SubSeq(s, 1, Len(s) - 1), chars) ELSE s

StripChars(s, chars) == RStrip(LStrip(s, chars), chars)

Whitespace == {" "}

\* str.startswith / str.endswith
StartsWith(s, p) == Len(s) >= Len(p) /\ SubSeq(s, 1, Len(p)) = p

EndsWith(s, p) ==
    Len(s) >= Len(p) /\ SubSeq(s, Len(s) - Len(p) + 1, Len(s)) = p

\* `p in s`
Contains(s, p) ==
    \E i \in 1..(Len(s) + 1) :
        i + Len(p) - 1 <= Len(s) /\ SubSeq(s, i, i + Len(p) - 1) = p

\* str.replace(p, ""): every occurrence of p, left to right, not overlapping
RECURSIVE RemoveAll(_, _)
RemoveAll(s, p) ==
    IF s = <<>> THEN <<>>
    ELSE IF StartsWith(s, p) THEN RemoveAll(SubSeq(s, Len(p) + 1, Len(s)), p)
    ELSE <<Head(s)>> \o RemoveAll(Tail(s), p)

\* float(text) on texts of digits, ".", "-", "+" and other characters:
\* [sign] digits [. [digits]]  or  [sign] . digits ; anything else raises.
\* (No text of the model has more than MaxScoreLen + 1 fraction digits, the
\* most that Scale can hold.)
UnsignedFloat(s) ==
    LET dots == {i \in 1..Len(s) : s[i] = "."}
    IN  IF dots = {}
        THEN IF s # <<>> /\ IsDigits(s)
             THEN Value(DigitsVal(s) * Scale) ELSE ValueError
        ELSE LET d    == CHOOSE i \in dots : TRUE
                 ip   == SubSeq(s, 1, d - 1)
                 fp   == SubSeq(s, d + 1, Len(s))
             IN  IF /\ Cardinality(dots) = 1
                    /\ IsDigits(ip) /\ IsDigits(fp)
                    /\ Len(ip) + Len(fp) >= 1
                    /\ Len(fp) <= MaxScoreLen + 1
                 THEN Value(DigitsVal(ip) * Scale
                            + DigitsVal(fp) * Pow10(MaxScoreLen + 1 - Len(fp)))
                 ELSE ValueError

ParseFloat(s) ==
    LET t == StripChars(s, Whitespace)
    IN  IF t # <<>> /\ Head(t) \in {"-", "+"}
        THEN LET u == UnsignedFloat(Tail(t))
             IN  IF u.st # "ok" THEN ValueError
                 ELSE IF Head(t) = "-" THEN Value(0 - u.val) ELSE u
        ELSE UnsignedFloat(t)

\* int(text): surrounding whitespace, an optional sign, digits
ParseInt(s) ==
    LET t == StripChars(s, Whitespace)
        u == IF t # <<>> /\ Head(t) \in {"-", "+"} THEN Tail(t) ELSE t
    IN  IF u = <<>> \/ ~IsDigits(u) THEN ValueError
        ELSE IF t # <<>> /\ Head(t) = "-" THEN Value(0 - DigitsVal(u))
        ELSE Value(DigitsVal(u))

-----------------------------------------------------------------------------
(* Field normalization *)

SlashSix == <<"/", "6">>
ReviewsWord == <<"r", "e", "v", "i", "e", "w", "s">>
LocatedAt == <<"L", "o", "c", "a", "t", "e", "d", " ", "a", "t">>

\* the set of characters of a text
CharsOf(s) == {s[i] : i \in 1..Len(s)}

\* RestaurantData.get_parsed_location (field serializer)
get_parsed_location(location) ==
    StripChars(RemoveAll(location, LocatedAt), Whitespace)

\* RestaurantData.get_parsed_restaurant_score (before-validator)
get_parsed_restaurant_score(score) ==
    IF score # None /\ score # <<>> /\ EndsWith(score, SlashSix)
    THEN ParseFloat(StripChars(score, CharsOf(SlashSix)))
    ELSE NoneValue

\* Field(default=None, ge=0, lt=6): the constraint on a float
ScoreConstraintMut(v) == TRUE

ScoreConstraint(v) == 0 <= v /\ v < 6 * Scale

\* validation of restaurant_score: the before-validator, then the field
\* constraint; a ValueError of the validator is a ValidationError too
ValidateScore(score) ==
    LET r == get_parsed_restaurant_score(score)
    IN  IF r.st = "ok" /\ ~ScoreConstraint(r.val) THEN ValueError ELSE r

\* RestaurantData.get_parsed_number_of_reviews (before-validator)
get_parsed_number_of_reviews(number_of_reviews) ==
    IF number_of_reviews # None /\ number_of_reviews # <<>>
    THEN ParseInt(StripChars(number_of_reviews, CharsOf(ReviewsWord)))
    ELSE NoneValue

\* tabular variant: float(text.strip('/6')), None when the element is absent
TabularScore(score) ==
    IF score = None THEN NoneValue
    ELSE ParseFloat(StripChars(score, CharsOf(SlashSix)))

\* tabular variant: int(text.strip('reviews')), None without a reviews span
TabularReviews(reviews) ==
    IF reviews = None THEN NoneValue
    ELSE ParseInt(StripChars(reviews, CharsOf(ReviewsWord)))

-----------------------------------------------------------------------------
(* NormSpec: the normalizers applied to texts drawn from bounded sets *)

\* all sequences over S of length at most n
SeqsUpTo(S, n) == UNION {[1..k -> S] : k \in 0..n}

RECURSIVE Flatten(_)
Flatten(ss) == IF ss = <<>> THEN <<>> ELSE Head(ss) \o Flatten(Tail(ss))

ScoreChars == {"0", "1", "5", "6", ".", "/", "-"}
ScoreTexts == SeqsUpTo(ScoreChars, MaxScoreLen)

ReviewPieces == {<<"1">>, <<"0">>, <<"2">>, <<" ">>, ReviewsWord, <<"N", "o">>}
ReviewTexts == {Flatten(ps) : ps \in SeqsUpTo(ReviewPieces, MaxPieces)}

Mitte == <<"M", "i", "t", "t", "e">>
LocationPieces ==
    {LocatedAt, <<" ">>, Mitte, <<"L", "o", "c", "a", "t">>,
     <<"e", "d", " ", "a", "t">>}
LocationTexts == {Flatten(ps) : ps \in SeqsUpTo(LocationPieces, MaxPieces)}

CrawlIdle ==
    /\ variant = "none" /\ site = <<>> /\ limit = 0 /\ pc = "Idle"
    /\ title = "unread" /\ determined_last_page = 0 /\ page = 0 /\ card = 0
    /\ scraped_restaurants_count = 0 /\ reached_result_limit = FALSE
    /\ restaurant_url = <<0, 0>> /\ restaurant_list = <<>> /\ task_list = <<>>
    /\ final_result = <<>> /\ outfile = <<>> /\ writes = 0
    /\ retval = "unset" /\ fetchLog = <<>> /\ odd = 0
    /\ city_name = <<>> /\ pagination_box = [box |-> FALSE, anchors |-> <<>>]

NormInit ==
    /\ CrawlIdle
    /\ nout = Pending
    /\ \/ nfield = "score" /\ nraw \in ScoreTexts \cup {None}
       \/ nfield = "reviews" /\ nraw \in ReviewTexts \cup {None}
       \/ nfield = "location" /\ nraw \in LocationTexts

\* RestaurantData(restaurant_score=nraw, ...): the score of the record
NormScore ==
    /\ nfield = "score" /\ nout = Pending
    /\ nout' = ValidateScore(nraw)
    /\ UNCHANGED <<nfield, nraw>> /\ UNCHANGED crawlVars

\* RestaurantData(number_of_reviews=nraw, ...): the review count
NormReviews ==
    /\ nfield = "reviews" /\ nout = Pending
    /\ nout' = get_parsed_number_of_reviews(nraw)
    /\ UNCHANGED <<nfield, nraw>> /\ UNCHANGED crawlVars

\* model_dump_json(): the location as serialized; a second pass re-serializes
\* the serialized location
NormLocation ==
    /\ nfield = "location" /\ nout = Pending
    /\ nout' = TextValue(get_parsed_location(nraw))
    /\ UNCHANGED <<nfield, nraw>> /\ UNCHANGED crawlVars

NormNext == NormScore \/ NormReviews \/ NormLocation

NormSpec == NormInit /\ [][NormNext]_vars

-----------------------------------------------------------------------------
(* The site *)

\* str.lower() of one character (the letters of the city names below)
LowerChar(c) ==
    CASE c = "U" -> "u" [] c = "L" -> "l" [] c = "M" -> "m" [] c = "R" -> "r"
      [] c = "O" -> "o" [] OTHER -> c

\* city_name.lower()
lower(t) == [i \in 1..Len(t) |-> LowerChar(t[i])]

\* the city names a scraper is constructed with
CityNames == {<<"U", "l", "m">>, <<"U", "L", "M">>, <<"r", "o", "m">>}

\* a city's listing pages: the number of cards on each
Sites == UNION {[1..n -> 0..MaxCards] : n \in 1..MaxPages}

NotFound == "Not found"
\* the title of the first page: the marker, another title, or no <title>
Titles == {NotFound, "Restaurants", "absent"}

\* the text of a page number below ten
IntText(n) == <<CHOOSE c \in Digits : DigitVal(c) = n>>

\* the pagination box of the first page: absent, or a div with its anchors
NoBox == [box |-> FALSE, anchors |-> <<>>]
\* find_last_page was not called yet
NoBoxSeen == [box |-> FALSE, anchors |-> <<<<"unseen">>>>]
Box(as) == [box |-> TRUE, anchors |-> as]

\* what the first page of a site may hold: the box the site's page count
\* calls for, or a malformed one (no anchors, a last anchor that is no number)
PaginationBoxes(s) ==
    (IF Len(s) = 1 THEN {NoBox} ELSE {})
      \cup {Box([i \in 1..Len(s) |-> IntText(i)])}
      \cup {Box(<<>>), Box(<<IntText(1), <<">">>>>)}

\* the raw content of a card and of its detail page
PlainCard ==
    [name     |-> TRUE,
     score    |-> <<"5", ".", "5", "/", "6">>,
     reviews  |-> <<"1", "2", " ">> \o ReviewsWord,
     location |-> LocatedAt \o <<" ">> \o Mitte,
     tags     |-> TRUE]

OddScores ==
    {None, <<"5", ".", "6", "/", "6">>, <<"6", "/", "6">>,
     <<"-", "1", "/", "6">>, <<"7", "/", "6">>, <<"5", ".", "5">>}

OddCards ==
    {[PlainCard EXCEPT !.score = s] : s \in OddScores}
      \cup {[PlainCard EXCEPT !.reviews = r] : r \in {None, ReviewsWord}}
      \cup {[PlainCard EXCEPT !.location = Mitte],
            [PlainCard EXCEPT !.name = FALSE],
            [PlainCard EXCEPT !.tags = FALSE]}

\* the cards the next card may be: at most MaxOddCards cards of a run differ
\* from the plain card
CardChoices == IF odd < MaxOddCards THEN {PlainCard} \cup OddCards ELSE {PlainCard}

\* the cards of pages 1..n, in page-then-card order
RECURSIVE CardIds(_, _)
CardIds(s, n) ==
    IF n = 0 THEN <<>>
    ELSE CardIds(s, n - 1) \o [i \in 1..s[n] |-> <<n, i>>]

TotalCards(s, n) == Len(CardIds(s, n))

-----------------------------------------------------------------------------
(* Requests *)

NoCard == <<0, 0>>

\* A request of the log: its kind, for a listing request the destination and
\* the page parameter of its URL (0: no &page), for a detail or menu request
\* the restaurant URL, the record count when it was issued, and how it ended:
\* "ok" (a success status), "bad_status" (a response with a non-success
\* status and some body) or "raise" (requests.get raised).

\* GET {base_url}/en/result?destination={city_name}, with &page=n when n > 0
Listing(n, net) ==
    [kind |-> "listing", dest |-> city_name, page |-> n, card |-> NoCard,
     count |-> scraped_restaurants_count, status |-> net]

\* GET restaurant_url
Detail(url, net) ==
    [kind |-> "detail", dest |-> <<>>, page |-> 0, card |-> url,
     count |-> scraped_restaurants_count, status |-> net]

\* GET restaurant_url + "/menu"
Menu(url, net) ==
    [kind |-> "menu", dest |-> <<>>, page |-> 0, card |-> url,
     count |-> scraped_restaurants_count, status |-> net]

\* requests.get answers with a success status, answers with a non-success
\* status, or raises (network failure, timeout); a non-success status is one
\* of the odd events of a run
FetchOutcomes ==
    {"ok", "raise"} \cup (IF odd < MaxOddCards THEN {"bad_status"} ELSE {})

\* odd after a response
OddAfter(net) == IF net = "bad_status" THEN odd + 1 ELSE odd

\* extract_soup_from_webpage returns the parsed body of every response it
\* gets, whatever its status: response.status_code is never read
SoupReturned(net) == net # "raise"

-----------------------------------------------------------------------------
(* The crawl *)

Init ==
    /\ site \in Sites
    /\ \/ variant = "task" /\ limit \in 0..MaxLimit
       \/ variant = "tabular" /\ limit = 0
    /\ pc = "Init"
    /\ title = "unread" /\ determined_last_page = 0 /\ page = 0 /\ card = 0
    /\ scraped_restaurants_count = 0 /\ reached_result_limit = FALSE
    /\ restaurant_url = NoCard /\ restaurant_list = <<>> /\ task_list = <<>>
    /\ final_result = <<>> /\ outfile = <<>> /\ writes = 0
    /\ retval = "unset" /\ fetchLog = <<>> /\ odd = 0
    /\ city_name \in {lower(c) : c \in CityNames}
    /\ pagination_box = NoBoxSeen
    /\ nfield = "none" /\ nraw = <<>> /\ nout = Pending

\* an exception leaves the run: nothing after the raising statement runs
FailPartial ==
    /\ pc' = "Error"
    /\ outfile' = Flatten(task_list) /\ writes' = writes + 1
    /\ UNCHANGED retval

Fail ==
    /\ pc' = "Error"
    /\ UNCHANGED <<outfile, writes, retval>>

\* first_page_soup.title.text == "Not found"
IsNotFoundMut(t) == FALSE

IsNotFound(t) == t = NotFound

\* the first request and the test of the page's title (both variants)
FetchFirstPage ==
    /\ pc = "Init"
    /\ \E net \in FetchOutcomes, t \in Titles :
         /\ fetchLog' = Append(fetchLog, Listing(0, net))
         /\ odd' = OddAfter(net)
         /\ IF ~SoupReturned(net)
            THEN Fail /\ UNCHANGED <<title, page, card>>
            ELSE
              /\ title' = t
              /\ IF t = "absent"
                 THEN Fail /\ UNCHANGED <<page, card>>
                 ELSE IF IsNotFound(t)
                 THEN /\ pc' = "NoData" /\ retval' = "None"
                      /\ UNCHANGED <<outfile, writes, page, card>>
                 ELSE IF variant = "task"
                 THEN /\ pc' = "FirstPageFetched"
                      /\ UNCHANGED <<outfile, writes, retval, page, card>>
                 ELSE /\ pc' = "Cards" /\ page' = 1 /\ card' = 1
                      /\ UNCHANGED <<outfile, writes, retval>>
    /\ UNCHANGED <<variant, site, limit, determined_last_page,
                   scraped_restaurants_count, reached_result_limit,
                   restaurant_url, restaurant_list, task_list,
                   final_result>>
    /\ UNCHANGED <<normVars, city_name, pagination_box>>

Last(s) == s[Len(s)]

\* find_last_page, were a box without anchors taken for a single page
find_last_page_lenient(p) ==
    IF ~p.box \/ p.anchors = <<>> THEN Value(1)
    ELSE ParseInt(Last(p.anchors))

\* find_last_page of the task-based variant: 1 without a box, else the integer
\* text of the last anchor; unpacking an empty anchor list raises
find_last_page(p) ==
    IF ~p.box THEN Value(1)
    ELSE IF p.anchors = <<>> THEN ValueError
    ELSE ParseInt(Last(p.anchors))

\* find_last_page of the tabular variant: None without a box
find_last_page_tabular(p) ==
    IF ~p.box THEN NoneValue
    ELSE IF p.anchors = <<>> THEN ValueError
    ELSE ParseInt(Last(p.anchors))

\* task variant: determined_last_page = self.find_last_page(first_page_soup)
ResolveLastPage ==
    /\ pc = "FirstPageFetched"
    /\ \E p \in PaginationBoxes(site) :
         /\ pagination_box' = p
         /\ LET r == find_last_page(p)
            IN  IF r.st = "error"
                THEN Fail /\ UNCHANGED <<determined_last_page, page>>
                ELSE /\ determined_last_page' = r.val
                     /\ page' = 1
                     /\ pc' = "PageLoop"
                     /\ UNCHANGED <<outfile, writes, retval>>
    /\ UNCHANGED <<variant, site, limit, title, card,
                   scraped_restaurants_count, reached_result_limit,
                   restaurant_url, restaurant_list, task_list, fetchLog, odd,
                   final_result>>
    /\ UNCHANGED <<normVars, city_name>>

\* task variant: one pass of the page loop: the page is fetched (the argument
\* of the coroutine call is evaluated first) and its task is started.  The
\* TaskGroup is entered anew in every pass and holds this one task; leaving
\* the `async with` block awaits it, and the task itself never yields to the
\* event loop (requests.get blocks), so at most one task runs at a time and
\* the next pass starts only after EndPage or HitLimit.
StartPage ==
    /\ pc = "PageLoop"
    /\ page <= determined_last_page
    /\ ~reached_result_limit
    /\ \E net \in FetchOutcomes :
         /\ fetchLog' = Append(fetchLog, Listing(page, net))
         /\ odd' = OddAfter(net)
         /\ IF ~SoupReturned(net)
            THEN Fail /\ UNCHANGED <<card, restaurant_list>>
            ELSE /\ pc' = "Task" /\ card' = 1 /\ restaurant_list' = <<>>
                 /\ UNCHANGED <<outfile, writes, retval>>
    /\ UNCHANGED <<variant, site, limit, title, determined_last_page, page,
                   scraped_restaurants_count, reached_result_limit,
                   restaurant_url, task_list, final_result>>
    /\ UNCHANGED <<normVars, city_name, pagination_box>>

\* if self.scraped_restaurants_count >= self.result_limit
LimitReachedMut(count, lim) == count > lim

LimitReached(count, lim) == count >= lim

\* RestaurantData(**raw).model_dump_json() of card c scraped at url, its meta
\* data read from the pages fetched at meta: the validated and serialized
\* record, or a ValidationError
model_dump_json(c, url, meta) ==
    LET sc == ValidateScore(c.score)
        rv == get_parsed_number_of_reviews(c.reviews)
    IN  IF sc.st = "error" \/ rv.st = "error" THEN ValueError
        ELSE [st |-> "ok", val |-> 0, text |-> <<>>,
              card |-> url,
              restaurant_location |-> get_parsed_location(c.location),
              restaurant_score |-> sc,
              number_of_reviews |-> rv,
              restaurant_url |-> url,
              restaurant_meta_data |-> [detail |-> meta, menu |-> meta]]

\* where the scraping of one card may fail on the network
CardFetchOutcomes ==
    {<<d, m>> : d \in {"ok", "bad_status", "raise"},
                m \in {"ok", "bad_status", "raise"}}

\* the odd events of one card: a card that is not the plain card, and each
\* response with a non-success status
OddEvents(c, net) ==
    (IF c = PlainCard THEN 0 ELSE 1)
      + (IF net[1] = "bad_status" THEN 1 ELSE 0)
      + (IF net[1] # "raise" /\ net[2] = "bad_status" THEN 1 ELSE 0)

\* the URL parse_restaurant_meta_data and parse_restaurant_menu fetch from,
\* were self.restaurant_url assigned only after the enrichment was awaited
EnrichmentUrlStale(attr) == restaurant_url

\* the URL parse_restaurant_meta_data and parse_restaurant_menu fetch from:
\* self.restaurant_url as it is when they run (attr: the attribute after the
\* card's assignment to it)
EnrichmentUrl(attr) == attr

\* task variant: one pass of the card loop below the limit:
\* parse_individual_restaurant_data_from_scrape (which sets
\* self.restaurant_url and awaits parse_restaurant_meta_data and
\* parse_restaurant_menu, both reading self.restaurant_url), then
\* RestaurantData(...).model_dump_json(), the append and the count.
\* The awaited coroutines never suspend (requests.get blocks) and no other
\* task exists while this one runs, so the pass is one step.
ParseCard ==
    /\ pc = "Task"
    /\ card <= site[page]
    /\ ~LimitReached(scraped_restaurants_count, limit)
    /\ \E c \in CardChoices, net \in CardFetchOutcomes :
         /\ odd + OddEvents(c, net) <= MaxOddCards
         /\ IF ~c.name
            THEN \* .find(h3).text on a card without a name
                 /\ net = <<"ok", "ok">>
                 /\ odd' = odd + OddEvents(c, net)
                 /\ Fail
                 /\ UNCHANGED <<restaurant_url, fetchLog, restaurant_list,
                                scraped_restaurants_count, card>>
            ELSE /\ restaurant_url' = <<page, card>>
                 /\ odd' = odd + OddEvents(c, net)
                 /\ IF ~SoupReturned(net[1]) \/ ~c.tags
                    THEN \* the detail request raises, or the detail page
                         \* has no tags container
                         /\ net[2] = "ok"
                         /\ fetchLog' = Append(fetchLog,
                                Detail(EnrichmentUrl(restaurant_url'), net[1]))
                         /\ Fail
                         /\ UNCHANGED <<restaurant_list,
                                        scraped_restaurants_count, card>>
                    ELSE /\ fetchLog' = fetchLog \o
                              <<Detail(EnrichmentUrl(restaurant_url'), net[1]),
                                Menu(EnrichmentUrl(restaurant_url'), net[2])>>
                         /\ LET r == model_dump_json(c, restaurant_url',
                                         EnrichmentUrl(restaurant_url'))
                            IN  IF ~SoupReturned(net[2]) \/ r.st = "error"
                                THEN /\ Fail
                                     /\ UNCHANGED <<restaurant_list,
                                                    scraped_restaurants_count,
                                                    card>>
                                ELSE /\ restaurant_list' = Append(restaurant_list, r)
                                     /\ scraped_restaurants_count' =
                                            scraped_restaurants_count + 1
                                     /\ card' = card + 1
                                     /\ UNCHANGED <<pc, outfile, writes, retval>>
    /\ UNCHANGED <<variant, site, limit, title, determined_last_page, page,
                   reached_result_limit, task_list, final_result>>
    /\ UNCHANGED <<normVars, city_name, pagination_box>>

\* task variant: a card is met with the count at the limit: the flag is set,
\* the card loop is left and the task returns its list
HitLimit ==
    /\ pc = "Task"
    /\ card <= site[page]
    /\ LimitReached(scraped_restaurants_count, limit)
    /\ reached_result_limit' = TRUE
    /\ task_list' = Append(task_list, restaurant_list)
    /\ page' = page + 1
    /\ pc' = "PageLoop"
    /\ UNCHANGED <<variant, site, limit, title, determined_last_page, card,
                   scraped_restaurants_count, restaurant_url, restaurant_list,
                   final_result, outfile, writes, retval, fetchLog, odd>>
    /\ UNCHANGED <<normVars, city_name, pagination_box>>

\* task variant: the cards of the page are used up: the task returns its list
\* and the task group is left
EndPage ==
    /\ pc = "Task"
    /\ card > site[page]
    /\ task_list' = Append(task_list, restaurant_list)
    /\ page' = page + 1
    /\ pc' = "PageLoop"
    /\ UNCHANGED <<variant, site, limit, title, determined_last_page, card,
                   scraped_restaurants_count, reached_result_limit,
                   restaurant_url, restaurant_list, final_result, outfile,
                   writes, retval, fetchLog, odd>>
    /\ UNCHANGED <<normVars, city_name, pagination_box>>

\* itertools.chain over the tasks' results, last task first
CombineReversed(results) ==
    IF results = <<>> THEN <<>>
    ELSE Flatten([i \in 1..Len(results) |-> results[Len(results) + 1 - i]])

\* itertools.chain(*[combine_json_strings(result) for result in results]): the
\* records of the tasks in the order the tasks were created (the JSON text
\* between model_dump_json and json.loads is not modelled)
CombineResults(results) == Flatten(results)

\* task variant: the page loop is left (pages used up, or the flag set); the
\* results are chained and written to the output file
WriteOutput ==
    /\ pc = "PageLoop"
    /\ page > determined_last_page \/ reached_result_limit
    /\ final_result' = CombineResults(task_list)
    /\ outfile' = final_result'
    /\ writes' = writes + 1
    /\ pc' = "Done"
    /\ UNCHANGED <<variant, site, limit, title, determined_last_page, page,
                   card, scraped_restaurants_count, reached_result_limit,
                   restaurant_url, restaurant_list, task_list, retval,
                   fetchLog, odd>>
    /\ UNCHANGED <<normVars, city_name, pagination_box>>

\* a missing value of the table (None / NaN)
Missing == "NaN"

\* tabular variant: the name of a card; the AttributeError of a card without
\* a name element is caught and the name left missing
TabularNameMissing(c) == IF c.name THEN "name" ELSE Missing

\* tabular variant: the name of a card: the text of its name element, or
\* UNKNOWN_ATTRIBUTE when the element is absent (AttributeError caught)
TabularName(c) == IF c.name THEN "name" ELSE "Unknown"

\* tabular variant: one row of parse_required_data_from_soup: a missing name is
\* "Unknown"; float() and int() raise on a text they cannot parse
TabularRow(c, id) ==
    LET sc == TabularScore(c.score)
        rv == TabularReviews(c.reviews)
    IN  IF sc.st = "error" \/ rv.st = "error" THEN ValueError
        ELSE [st |-> "ok", val |-> 0, text |-> <<>>,
              card |-> id,
              Restaurant_name |-> TabularName(c),
              Restaurant_location |-> c.location,
              Restaurant_score |-> sc,
              Number_of_reviews |-> rv]

\* tabular variant: one pass of the card loop of parse_required_data_from_soup
TabularParseCard ==
    /\ pc = "Cards"
    /\ card <= site[page]
    /\ \E c \in CardChoices :
         /\ odd' = IF c = PlainCard THEN odd ELSE odd + 1
         /\ LET r == TabularRow(c, <<page, card>>)
            IN  IF r.st = "error"
                THEN Fail /\ UNCHANGED <<restaurant_list, card>>
                ELSE /\ restaurant_list' = Append(restaurant_list, r)
                     /\ card' = card + 1
                     /\ UNCHANGED <<pc, outfile, writes, retval>>
    /\ UNCHANGED <<variant, site, limit, title, determined_last_page, page,
                   scraped_restaurants_count, reached_result_limit,
                   restaurant_url, task_list, fetchLog, final_result>>
    /\ UNCHANGED <<normVars, city_name, pagination_box>>

\* tabular variant: the first page's rows join the table, then
\* find_last_page(first_page_soup); without further pages the table is returned
TabularEndFirstPage ==
    /\ pc = "Cards"
    /\ page = 1
    /\ card > site[page]
    /\ final_result' = final_result \o restaurant_list
    /\ \E p \in PaginationBoxes(site) :
         /\ pagination_box' = p
         /\ LET r == find_last_page_tabular(p)
            IN  IF r.st = "error"
                THEN Fail /\ UNCHANGED <<determined_last_page, page>>
                ELSE IF r.st = "none" \/ r.val = 0
                THEN /\ pc' = "Done" /\ retval' = "table"
                     /\ UNCHANGED <<determined_last_page, page, outfile, writes>>
                ELSE /\ determined_last_page' = r.val
                     /\ page' = 2
                     /\ pc' = "TabularLoop"
                     /\ UNCHANGED <<outfile, writes, retval>>
    /\ UNCHANGED <<variant, site, limit, title, card,
                   scraped_restaurants_count, reached_result_limit,
                   restaurant_url, restaurant_list, task_list, fetchLog, odd>>
    /\ UNCHANGED <<normVars, city_name>>

\* tabular variant: one pass of `for page in range(2, determined_last_page + 1)`
\* up to the parse of the fetched page
TabularNextPage ==
    /\ pc = "TabularLoop"
    /\ page <= determined_last_page
    /\ \E net \in FetchOutcomes :
         /\ fetchLog' = Append(fetchLog, Listing(page, net))
         /\ odd' = OddAfter(net)
         /\ IF ~SoupReturned(net)
            THEN Fail /\ UNCHANGED <<card, restaurant_list>>
            ELSE /\ pc' = "Cards" /\ card' = 1 /\ restaurant_list' = <<>>
                 /\ UNCHANGED <<outfile, writes, retval>>
    /\ UNCHANGED <<variant, site, limit, title, determined_last_page, page,
                   scraped_restaurants_count, reached_result_limit,
                   restaurant_url, task_list, final_result>>
    /\ UNCHANGED <<normVars, city_name, pagination_box>>

\* tabular variant: the rows of a later page join the table
TabularEndPage ==
    /\ pc = "Cards"
    /\ page > 1
    /\ card > site[page]
    /\ final_result' = final_result \o restaurant_list
    /\ page' = page + 1
    /\ pc' = "TabularLoop"
    /\ UNCHANGED <<variant, site, limit, title, determined_last_page, card,
                   scraped_restaurants_count, reached_result_limit,
                   restaurant_url, restaurant_list, task_list, outfile,
                   writes, retval, fetchLog, odd>>
    /\ UNCHANGED <<normVars, city_name, pagination_box>>

\* tabular variant: the pages are used up: the table is returned
TabularReturn ==
    /\ pc = "TabularLoop"
    /\ page > determined_last_page
    /\ pc' = "Done"
    /\ retval' = "table"
    /\ UNCHANGED <<variant, site, limit, title, determined_last_page, page,
                   card, scraped_restaurants_count, reached_result_limit,
                   restaurant_url, restaurant_list, task_list, final_result,
                   outfile, writes, fetchLog, odd>>
    /\ UNCHANGED <<normVars, city_name, pagination_box>>

Next ==
    \/ FetchFirstPage
    \/ ResolveLastPage
    \/ StartPage
    \/ ParseCard
    \/ HitLimit
    \/ EndPage
    \/ WriteOutput
    \/ TabularParseCard
    \/ TabularEndFirstPage
    \/ TabularNextPage
    \/ TabularEndPage
    \/ TabularReturn

Spec == Init /\ [][Next]_vars

-----------------------------------------------------------------------------
(* Claims on the crawl (checked under Spec) *)

\* the cards of a sequence of records, in order
CardsOf(records) == [i \in 1..Len(records) |-> records[i].card]

\* C1: when the first fetched page's title is the "Not found" marker, the run
\* ends in NoData with an empty result (None returned, no records, no file),
\* the first request is the only request ever issued, and no card was
\* extracted, enriched or normalized.
C1_NotFoundEndsInNoData ==
    title = NotFound =>
        /\ pc = "NoData"
        /\ retval = "None"
        /\ Len(fetchLog) = 1
        /\ fetchLog[1].kind = "listing" /\ fetchLog[1].page = 0
        /\ page = 0 /\ card = 0
        /\ scraped_restaurants_count = 0
        /\ restaurant_url = NoCard
        /\ restaurant_list = <<>> /\ task_list = <<>> /\ final_result = <<>>
        /\ writes = 0 /\ outfile = <<>>

C1_Witness == variant = "task" /\ title = NotFound /\ pc = "NoData"

\* C2: a completed task-based run whose limit L is smaller than the number of
\* cards on the discovered pages outputs exactly L records: the first L cards
\* in page-then-card order.
C2_LimitYieldsExactlyL ==
    (/\ variant = "task"
     /\ pc = "Done"
     /\ limit < TotalCards(site, determined_last_page))
    => /\ Len(outfile) = limit
       /\ CardsOf(outfile)
            = SubSeq(CardIds(site, determined_last_page), 1, limit)

\* the limit cuts a run short on its second page
C2_Witness ==
    /\ variant = "task" /\ pc = "Done"
    /\ limit < TotalCards(site, determined_last_page)
    /\ Len(outfile) = limit
    /\ limit >= 2
    /\ outfile[limit].card[1] = 2

\* C3: in the task-based variant no request (listing page, detail page, menu)
\* is started once the running record count has reached the limit L.  Stated
\* for L >= 1, where the count reaches L only by scraping L cards: every
\* request in the log was issued at a count below L.
C3_NoFetchAfterLimit ==
    (variant = "task" /\ limit >= 1)
    => \A i \in 1..Len(fetchLog) : fetchLog[i].count < limit

\* C4: when no limit cuts the crawl short (tabular variant, or limit >= total
\* cards in the task-based variant), a completed run over a city of N pages
\* yields one record per card of pages 1..N, in page order and within a page
\* in card order: nothing reordered, dropped or repeated.
C4_AllCardsInOrder ==
    (/\ pc = "Done"
     /\ \/ variant = "tabular"
        \/ variant = "task" /\ limit >= TotalCards(site, Len(site)))
    => /\ CardsOf(final_result) = CardIds(site, Len(site))
       /\ variant = "task" => outfile = final_result

\* a task-based run over two pages that both hold cards
C4_Witness ==
    /\ variant = "task" /\ pc = "Done"
    /\ Len(site) = 2 /\ site[1] >= 1 /\ site[2] >= 1
    /\ limit >= TotalCards(site, Len(site))
    /\ Len(final_result) = TotalCards(site, Len(site))

\* the output document of a completed run: written once, holding every record
\* the run produced
CompleteOutput ==
    /\ writes = 1
    /\ outfile = Flatten(task_list)
    /\ Len(outfile) = scraped_restaurants_count

\* C5 as stated: a task-based run either completes and writes exactly one
\* complete output document, or aborts with an error having written nothing.
C5_CompleteOrError ==
    variant = "task" =>
        \/ pc = "Done" /\ CompleteOutput
        \/ pc = "Error" /\ writes = 0 /\ outfile = <<>>
        \/ pc \notin {"Done", "Error", "NoData"} /\ writes = 0 /\ outfile = <<>>

\* C5 as amended: a task-based run either completes and writes exactly one
\* complete output document, or ends without output: aborted by an error
\* (whatever was scraped before it), or returning None on the "Not found"
\* page.  Nothing is written before the run completes.
C5_OutputAllOrNothing ==
    variant = "task" =>
        \/ pc = "Done" /\ CompleteOutput
        \/ pc = "Error" /\ writes = 0 /\ outfile = <<>>
        \/ pc = "NoData" /\ writes = 0 /\ outfile = <<>>
        \/ pc \notin {"Done", "Error", "NoData"} /\ writes = 0 /\ outfile = <<>>

\* a run that fails after a page was scraped successfully
C5_Witness ==
    /\ variant = "task" /\ pc = "Error"
    /\ Len(task_list) >= 1 /\ task_list[1] # <<>>
    /\ writes = 0

\* C10: every record in the output file has a score that is absent or lies in
\* [0, 6).
C10_OutputScoresInRange ==
    \A i \in 1..Len(outfile) :
        LET s == outfile[i].restaurant_score
        IN  \/ s.st = "none"
            \/ s.st = "ok" /\ 0 <= s.val /\ s.val < 6 * Scale

\* an output holding a score parsed from a card's text ("5.6/6", which the
\* code reads as 5.0)
C10_Witness ==
    /\ pc = "Done"
    /\ \E i \in 1..Len(outfile) : outfile[i].restaurant_score = Value(5 * Scale)

-----------------------------------------------------------------------------
(* Claims on the normalizers (checked under NormSpec) *)

\* a decimal number as written: digits, or digits "." digits
IsDecimalLiteral(x) ==
    LET dots == {i \in 1..Len(x) : x[i] = "."}
    IN  /\ x # <<>>
        /\ Cardinality(dots) <= 1
        /\ 1 \notin dots /\ Len(x) \notin dots
        /\ \A i \in (1..Len(x)) \ dots : x[i] \in Digits

\* the text before a suffix of n characters
Before(t, n) == SubSeq(t, 1, Len(t) - n)

\* C6: for every score text "<x>/6" with x a decimal number, 0 <= x < 6, score
\* normalization yields exactly x.
C6_ScoreExact ==
    (/\ nfield = "score" /\ nout # Pending
     /\ EndsWith(nraw, SlashSix)
     /\ IsDecimalLiteral(Before(nraw, 2))
     /\ ParseFloat(Before(nraw, 2)).val < 6 * Scale)
    => nout = ParseFloat(Before(nraw, 2))

\* a text of the form "<float>/6" whose value lies in [0, 6)
InRangeScoreText(t) ==
    /\ EndsWith(t, SlashSix)
    /\ LET f == ParseFloat(Before(t, 2))
       IN  f.st = "ok" /\ 0 <= f.val /\ f.val < 6 * Scale

\* C7: every score text that is not of the form "<float>/6", or whose value
\* lies outside [0, 6) ("6/6", "-1/6"), is normalized to an absent score: no
\* error is raised for it.
C7_OutOfRangeAbsent ==
    (/\ nfield = "score" /\ nout # Pending
     /\ nraw # None
     /\ ~InRangeScoreText(nraw))
    => nout = NoneValue

SpaceReviews == <<" ">> \o ReviewsWord

\* C8: "<n> reviews" is normalized to the integer n, and a reviews text (one
\* that contains "reviews") without a leading integer to an absent count, with
\* no error raised.
C8_ReviewCount ==
    (nfield = "reviews" /\ nout # Pending /\ nraw # None)
    => /\ (/\ EndsWith(nraw, SpaceReviews)
           /\ Before(nraw, 8) # <<>>
           /\ IsDigits(Before(nraw, 8)))
          => nout = Value(DigitsVal(Before(nraw, 8)))
       /\ (/\ Contains(nraw, ReviewsWord)
           /\ ~(Head(nraw) \in Digits))
          => nout = NoneValue

\* a leading "Located at" dropped, whitespace around the rest trimmed
DropLeading(t) ==
    StripChars(IF StartsWith(t, LocatedAt)
               THEN SubSeq(t, Len(LocatedAt) + 1, Len(t)) ELSE t,
               Whitespace)

\* C9: location normalization strips a leading "Located at" and surrounding
\* whitespace and nothing else (the prefix looked for before or after the
\* whitespace is trimmed), and normalizing twice is normalizing once.
C9_LocationLeadingOnly ==
    (nfield = "location" /\ nout # Pending)
    => /\ nout.text \in {DropLeading(nraw),
                         DropLeading(StripChars(nraw, Whitespace))}
       /\ get_parsed_location(nout.text) = nout.text

-----------------------------------------------------------------------------
(* Claims on the tabular variant and on the requests (checked under Spec) *)

\* the rows of the table so far: those joined to it and those of the page
\* being parsed
TableRows == final_result \o restaurant_list

\* C11: every row of the table of the tabular variant has a Restaurant_name
\* that is not missing, also for a card without a name element.
C11_NameNeverMissing ==
    variant = "tabular" =>
        \A i \in 1..Len(TableRows) : TableRows[i].Restaurant_name # Missing

\* a returned table holding the row of a card without a name element
C11_Witness ==
    /\ variant = "tabular" /\ pc = "Done" /\ retval = "table"
    /\ \E i \in 1..Len(final_result) :
           final_result[i].Restaurant_name = "Unknown"

\* C12: no row of the table returned by the tabular variant has a negative
\* Restaurant_score, whatever the score text of the card.
C12_NoNegativeScore ==
    (variant = "tabular" /\ retval = "table") =>
        \A i \in 1..Len(final_result) :
            final_result[i].Restaurant_score.st = "ok"
                => final_result[i].Restaurant_score.val >= 0


\* ---- C13 ----
\* C13: every listing-page request targets the search URL of the lower-cased
\* city; the first one carries no page parameter, and a request carries
\* &page=n only for a page n > 1 (never &page=1).
C13_ListingRequests ==
    \A i \in 1..Len(fetchLog) :
        fetchLog[i].kind = "listing" =>
            /\ fetchLog[i].dest = city_name
            /\ lower(fetchLog[i].dest) = fetchLog[i].dest
            /\ fetchLog[i].page # 1
            /\ (i = 1 <=> fetchLog[i].page = 0)

\* ---- C14 ----
\* C14: a response with a non-success status ends the run in an error at that
\* request: nothing is requested after it and the run is in its error state.
C14_BadStatusIsFatal ==
    \A i \in 1..Len(fetchLog) :
        fetchLog[i].status = "bad_status" =>
            /\ i = Len(fetchLog)
            /\ pc = "Error"

\* ---- C15 ----
\* C15: in the task variant, once the last page is resolved: without a
\* pagination box it is 1; with a box whose last anchor is a number it is that
\* number; with a box without anchors the run is in its error state, with no
\* page count, no further request and no output.
C15_FindLastPage ==
    (variant = "task" /\ pagination_box # NoBoxSeen) =>
        /\ ~pagination_box.box => determined_last_page = 1
        /\ (pagination_box.box /\ pagination_box.anchors # <<>>
              /\ IsDigits(Last(pagination_box.anchors)))
             => determined_last_page = DigitsVal(Last(pagination_box.anchors))
        /\ (pagination_box.box /\ pagination_box.anchors = <<>>)
             => /\ pc = "Error"
                /\ determined_last_page = 0
                /\ Len(fetchLog) = 1
                /\ writes = 0

\* a first page with a box without anchors was resolved
C15_Witness ==
    /\ variant = "task"
    /\ pagination_box = Box(<<>>)
    /\ pc = "Error"

\* ---- C16 ----
\* the detail and menu requests of the log
Enrichments == SelectSeq(fetchLog, LAMBDA e : e.kind # "listing")

\* the records of the task variant: written, gathered from finished pages, or
\* of the page in progress
EmittedRecords == outfile \o Flatten(task_list) \o restaurant_list

\* C16: every record scraped or written has its meta data read from the
\* pages at its own restaurant_url, and the detail and menu requests of a
\* card are neighbours in the log: a menu request follows the detail request
\* of the same URL, and every scraped record's two requests are in the log.
C16_EnrichmentReadsOwnUrl ==
    variant = "task" =>
        /\ \A i \in 1..Len(EmittedRecords) :
               LET r == EmittedRecords[i]
               IN  /\ r.restaurant_meta_data.detail = r.restaurant_url
                   /\ r.restaurant_meta_data.menu = r.restaurant_url
                   /\ \E j \in 1..(Len(Enrichments) - 1) :
                          /\ Enrichments[j].kind = "detail"
                          /\ Enrichments[j].card = r.restaurant_url
                          /\ Enrichments[j + 1].kind = "menu"
                          /\ Enrichments[j + 1].card = r.restaurant_url
        /\ \A j \in 1..Len(Enrichments) :
               Enrichments[j].kind = "menu" =>
                   /\ j > 1
                   /\ Enrichments[j - 1].kind = "detail"
                   /\ Enrichments[j - 1].card = Enrichments[j].card

\* a finished run that wrote records of cards of two different pages
C16_Witness ==
    /\ variant = "task"
    /\ pc = "Done"
    /\ \E i, j \in 1..Len(outfile) :
           outfile[i].restaurant_url[1] # outfile[j].restaurant_url[1]

====
